---- MODULE Spec2Model ----
(***************************************************************************)
(* FilterFork (src/filterfork/filterfork.py): the scoped filter lists, the *)
(* compiled-pattern cache, and the per-member escalation counters.         *)
(*                                                                         *)
(* Every coroutine is modelled as a process whose steps are cut at its     *)
(* `await`s: one step is the synchronous code that follows the previous    *)
(* await together with the effect of the next awaited operation (a config  *)
(* read or write, a Discord API call).  Other coroutines may run between   *)
(* two steps, never inside one.  A finished process keeps its record       *)
(* (pc = "done") until its slot is used again.                             *)
(*                                                                         *)
(* Texts and filter terms are sequences of one-character strings.          *)
(***************************************************************************)
EXTENDS Integers, Sequences, FiniteSets, TLC

\* ------------------------------------------------------------- universe

None == "None"

Guilds == {"g1", "g2"}

Channels == {"c1", "c2", "d1"}

\* channel.guild
GuildOf(c) == IF c \in {"c1", "c2"} THEN "g1" ELSE "g2"

Members == {"m1"}

\* concurrently running on_message / on_message_edit listeners
Events == {"e1", "e2"}

\* concurrently running admin commands
Cmds == {"k1"}

\* messages handled in one behaviour with concurrent listeners
MaxMsgs == 2

\* messages handled in one behaviour with one listener at a time
MaxSeqMsgs == 3

\* list commands issued in one behaviour of the cache runs
MaxCmds == 2

\* commands issued in one behaviour with one listener at a time
MaxSeqCmds == 3

\* filterset calls issued in one behaviour of the settings runs
MaxCfgCmds == 2

\* largest count / timeframe argument of filterset ban / filterset mute
MaxArg == 2

\* ------------------------------------------------------------- text

WordChars == {"a", "b", "A", "B"}

\* str.lower(), one character
LowerChar(ch) ==
    CASE ch = "A" -> "a"
      [] ch = "B" -> "b"
      [] OTHER -> ch

\* str.lower()
Lower(w) == [i \in 1..Len(w) |-> LowerChar(w[i])]

Range(s) == {s[i] : i \in 1..Len(s)}

\* regex \b at the gap before text[p]: exactly one side is a word character
WordBoundary(text, p) ==
    LET left == p - 1 >= 1 /\ p - 1 <= Len(text) /\ text[p - 1] \in WordChars
        right == p >= 1 /\ p <= Len(text) /\ text[p] \in WordChars
    IN left # right

\* rf"\b{re.escape(w)}\b" under re.I matches text at position i
MatchAt(w, text, i) ==
    /\ i + Len(w) - 1 <= Len(text)
    /\ \A j \in 1..Len(w) : LowerChar(text[i + j - 1]) = LowerChar(w[j])
    /\ WordBoundary(text, i)
    /\ WordBoundary(text, i + Len(w))

RECURSIVE FindFrom(_, _, _)
\* pattern.findall(text) from position i: leftmost match, first alternative
\* that matches there, then on from the end of the match
FindFrom(alts, text, i) ==
    IF i > Len(text) THEN {}
    ELSE LET ks == {k \in 1..Len(alts) : MatchAt(alts[k], text, i)}
         IN IF ks = {} THEN FindFrom(alts, text, i + 1)
            ELSE LET k == CHOOSE x \in ks : \A y \in ks : x <= y
                     n == Len(alts[k])
                 IN {SubSeq(text, i, i + n - 1)} \cup FindFrom(alts, text, i + n)

\* a compiled pattern: the alternation in the order the word set was iterated;
\* pattern None is the empty alternation
NoPattern == <<>>

\* set(pattern.findall(text)) if pattern else set()
Findall(pattern, text) ==
    IF pattern = NoPattern THEN {} ELSE FindFrom(pattern, text, 1)

\* the orders in which "|".join(... for w in word_list) may iterate the set
Orderings(S) ==
    {s \in [1..Cardinality(S) -> S] : \A i, j \in 1..Cardinality(S) : s[i] = s[j] => i = j}

\* ------------------------------------------------------------- filter lists

RECURSIVE AddWordsRaw(_, _)
\* the loop of add_to_filter with the membership test on w, not on w.lower()
AddWordsRaw(cur_list, words) ==
    IF words = <<>> THEN cur_list
    ELSE LET w == Head(words)
             nxt == IF w \notin Range(cur_list) /\ w # <<>>
                    THEN Append(cur_list, Lower(w)) ELSE cur_list
         IN AddWordsRaw(nxt, Tail(words))

RECURSIVE AddWords(_, _)
\* the loop of add_to_filter over `words`, on the list cur_list
AddWords(cur_list, words) ==
    IF words = <<>> THEN cur_list
    ELSE LET w == Head(words)
             nxt == IF Lower(w) \notin Range(cur_list) /\ w # <<>>
                    THEN Append(cur_list, Lower(w)) ELSE cur_list
         IN AddWords(nxt, Tail(words))

\* list.remove(x): drops the first occurrence
RemoveFirst(list, x) ==
    LET i == CHOOSE k \in 1..Len(list) : list[k] = x /\ \A j \in 1..(k - 1) : list[j] # x
    IN SubSeq(list, 1, i - 1) \o SubSeq(list, i + 1, Len(list))

RECURSIVE RemoveWords(_, _)
\* the loop of remove_from_filter over `words`, on the list cur_list
RemoveWords(cur_list, words) ==
    IF words = <<>> THEN cur_list
    ELSE LET w == Head(words)
             nxt == IF Lower(w) \in Range(cur_list)
                    THEN RemoveFirst(cur_list, Lower(w)) ELSE cur_list
         IN RemoveWords(nxt, Tail(words))

\* ------------------------------------------------------------- state

VARIABLES
    guildData,      \* config.guild(g): the whole guild dict
    channelData,    \* config.channel(c).filter
    memberData,     \* config.member(m): the whole member dict, per guild
    memberLock,     \* the lock `async with config.member(m).all()` holds
    pattern_cache,  \* self.pattern_cache, keyed (guild, channel or None)
    ev,             \* the running on_message listeners
    cmd,            \* the running admin commands
    nMsgs,          \* messages handled so far
    nCmds           \* commands issued so far

vars == <<guildData, channelData, memberData, memberLock, pattern_cache, ev, cmd, nMsgs, nCmds>>

default_guild_settings ==
    [filter |-> <<>>, filterban_count |-> 0, filterban_time |-> 0,
     filtermute_count |-> 0, filtermute_time |-> 0, filter_names |-> FALSE,
     filter_default_name |-> "John Doe"]

default_member_settings ==
    [filterban_count |-> 0, filterban_next_reset_time |-> 0,
     filtermute_count |-> 0, filtermute_next_reset_time |-> 0]

default_channel_settings == <<>>

CacheKeys ==
    {key \in Guilds \X (Channels \cup {None}) : key[2] = None \/ GuildOf(key[2]) = key[1]}

\* a cache slot: absent, or a compiled pattern
Absent == [present |-> FALSE, pattern |-> NoPattern]

Cached(p) == [present |-> TRUE, pattern |-> p]

\* the early checks of maybe_filter_name, all passing: the cog is enabled in
\* the guild, the bot holds manage_nicknames, the member's top role is below
\* the bot's, the member is not automod-immune
AllPass == [enabled |-> TRUE, manage_nicknames |-> TRUE, hierarchy |-> TRUE, not_immune |-> TRUE]

NoMsg == [guild |-> None, channel |-> None, author |-> None, created_at |-> 0, content |-> <<>>]

IdleEv ==
    [pc |-> "idle", kind |-> "message", msg |-> NoMsg,
     guild_data |-> default_guild_settings,
     user_filterban_count |-> 0, user_filterban_next_reset_time |-> 0,
     user_filtermute_count |-> 0, user_filtermute_next_reset_time |-> 0,
     member_data |-> default_member_settings,
     word_list |-> {}, hits |-> {},
     \* what the listener has done so far (observed, never read by the code)
     pre |-> default_member_settings,
     filterhit_cases |-> 0, deleted |-> "none", notified |-> "none",
     dispatched |-> <<>>, ban_written |-> FALSE, mute_written |-> FALSE,
     ban_reset |-> FALSE, mute_reset |-> FALSE,
     ban |-> "none", filterban_cases |-> 0, mute |-> "none", raised |-> FALSE,
     renamed |-> "none", renamed_to |-> None, checks |-> AllPass]

IdleCmd ==
    [pc |-> "idle", kind |-> None, guild |-> None, channel |-> None, words |-> <<>>,
     count |-> 0, timeframe |-> 0, cur_list |-> <<>>, guild_data |-> default_guild_settings,
     changed |-> FALSE, reply |-> None, pre |-> default_guild_settings,
     requester |-> None, user |-> None, all_members |-> {},
     \* the list and the cache when the command began (observed, never read)
     pre_list |-> <<>>, pre_cache |-> [key \in CacheKeys |-> Absent]]

Init ==
    /\ guildData = [g \in Guilds |-> default_guild_settings]
    /\ channelData = [c \in Channels |-> default_channel_settings]
    /\ memberData = [g \in Guilds |-> [m \in Members |-> default_member_settings]]
    /\ memberLock = [g \in Guilds |-> [m \in Members |-> None]]
    /\ pattern_cache = [key \in CacheKeys |-> Absent]
    /\ ev = [e \in Events |-> IdleEv]
    /\ cmd = [k \in Cmds |-> IdleCmd]
    /\ nMsgs = 0
    /\ nCmds = 0

\* ------------------------------------------------------------- cache

\* invalidate_cache without the loop over the keys of the guild
invalidate_cache_one_key(cache, guild, channel) ==
    [cache EXCEPT ![<<guild, channel>>] = Absent]

\* FilterFork.invalidate_cache
invalidate_cache(cache, guild, channel) ==
    LET popped == [cache EXCEPT ![<<guild, channel>>] = Absent]
    IN IF channel = None
       THEN [key \in CacheKeys |->
                IF guild = key[1] \/ guild = key[2] THEN Absent ELSE popped[key]]
       ELSE popped

\* set(guild list) | set(channel list): what filter_hits compiles for a scope
EffectiveTerms(g, c) ==
    Range(guildData[g].filter) \cup (IF c = None THEN {} ELSE Range(channelData[c]))

\* ------------------------------------------------------------- admin commands

CmdFree(k) == cmd[k].pc \in {"idle", "done"}

Issue(k, rec) ==
    /\ CmdFree(k)
    /\ cmd' = [cmd EXCEPT ![k] = rec]
    /\ nCmds' = nCmds + 1

\* `async with config.<scope>.filter() as cur_list`, entered: the list is read
ListCmd(kind, pc, g, c, words) ==
    [IdleCmd EXCEPT !.pc = pc, !.kind = kind, !.guild = g, !.channel = c, !.words = words,
                    !.cur_list = IF c = None THEN guildData[g].filter ELSE channelData[c],
                    !.pre_list = IF c = None THEN guildData[g].filter ELSE channelData[c],
                    !.pre_cache = pattern_cache]

\* the context manager's exit: the list is written back when it has changed
WriteList(k, new) ==
    IF new = cmd[k].cur_list
    THEN UNCHANGED <<guildData, channelData>>
    ELSE IF cmd[k].channel = None
         THEN /\ guildData' = [guildData EXCEPT ![cmd[k].guild].filter = new]
              /\ UNCHANGED channelData
         ELSE /\ channelData' = [channelData EXCEPT ![cmd[k].channel] = new]
              /\ UNCHANGED guildData

\* [p]filter add <words>: up to the read of the guild list in add_to_filter
filter_add(k, g, words) ==
    /\ Issue(k, ListCmd("filter_add", "add_to_filter", g, None, words))
    /\ UNCHANGED <<guildData, channelData, memberData, memberLock, pattern_cache, ev, nMsgs>>

\* [p]filter remove <words>: up to the read of the guild list in remove_from_filter
filter_remove(k, g, words) ==
    /\ Issue(k, ListCmd("filter_remove", "remove_from_filter", g, None, words))
    /\ UNCHANGED <<guildData, channelData, memberData, memberLock, pattern_cache, ev, nMsgs>>

\* [p]filter channel add <words>
filter_channel_add(k, c, words) ==
    /\ Issue(k, ListCmd("filter_channel_add", "add_to_filter", GuildOf(c), c, words))
    /\ UNCHANGED <<guildData, channelData, memberData, memberLock, pattern_cache, ev, nMsgs>>

\* [p]filter channel remove <words>
filter_channel_remove(k, c, words) ==
    /\ Issue(k, ListCmd("filter_channel_remove", "remove_from_filter", GuildOf(c), c, words))
    /\ UNCHANGED <<guildData, channelData, memberData, memberLock, pattern_cache, ev, nMsgs>>

\* add_to_filter: the loop over the words and the write of the list
add_to_filter(k) ==
    /\ cmd[k].pc = "add_to_filter"
    /\ LET new == AddWords(cmd[k].cur_list, cmd[k].words)
       IN /\ WriteList(k, new)
          /\ cmd' = [cmd EXCEPT ![k] = [@ EXCEPT !.pc = "reply", !.cur_list = new,
                                                   !.changed = (new # cmd[k].cur_list)]]
    /\ UNCHANGED <<memberData, memberLock, pattern_cache, ev, nMsgs, nCmds>>

\* remove_from_filter: the loop over the words and the write of the list
remove_from_filter(k) ==
    /\ cmd[k].pc = "remove_from_filter"
    /\ LET new == RemoveWords(cmd[k].cur_list, cmd[k].words)
       IN /\ WriteList(k, new)
          /\ cmd' = [cmd EXCEPT ![k] = [@ EXCEPT !.pc = "reply", !.cur_list = new,
                                                   !.changed = (new # cmd[k].cur_list)]]
    /\ UNCHANGED <<memberData, memberLock, pattern_cache, ev, nMsgs, nCmds>>

\* the commands invalidating without looking at the result of the list call
InvalidateAlwaysThenReply(k) ==
    /\ cmd[k].pc = "reply"
    /\ cmd[k].kind \in {"filter_add", "filter_remove", "filter_channel_add"}
    /\ pattern_cache' = invalidate_cache(pattern_cache, cmd[k].guild, cmd[k].channel)
    /\ cmd' = [cmd EXCEPT ![k] = [@ EXCEPT !.pc = "done",
                                           !.reply = IF cmd[k].changed THEN "changed" ELSE "no change"]]
    /\ UNCHANGED <<guildData, channelData, memberData, memberLock, ev, nMsgs, nCmds>>

\* filter_add, filter_remove, filter_channel_add after the list was written:
\* `if added: self.invalidate_cache(...)`, then the reply is sent
InvalidateThenReply(k) ==
    /\ cmd[k].pc = "reply"
    /\ cmd[k].kind \in {"filter_add", "filter_remove", "filter_channel_add"}
    /\ pattern_cache' = IF cmd[k].changed
                        THEN invalidate_cache(pattern_cache, cmd[k].guild, cmd[k].channel)
                        ELSE pattern_cache
    /\ cmd' = [cmd EXCEPT ![k] = [@ EXCEPT !.pc = "done",
                                           !.reply = IF cmd[k].changed THEN "changed" ELSE "no change"]]
    /\ UNCHANGED <<guildData, channelData, memberData, memberLock, ev, nMsgs, nCmds>>

\* filter_channel_remove after the list was written: the reply is sent first;
\* a failed send raises out of the command
filter_channel_remove_reply(k, sendOk) ==
    /\ cmd[k].pc = "reply"
    /\ cmd[k].kind = "filter_channel_remove"
    /\ cmd' = [cmd EXCEPT ![k] = [@ EXCEPT
                 !.pc = IF cmd[k].changed /\ sendOk THEN "invalidate" ELSE "done",
                 !.reply = IF ~sendOk THEN "raised"
                           ELSE IF cmd[k].changed THEN "changed" ELSE "no change"]]
    /\ UNCHANGED <<guildData, channelData, memberData, memberLock, pattern_cache, ev, nMsgs, nCmds>>

\* filter_channel_remove: the invalidate_cache that follows the reply
filter_channel_remove_invalidate(k) ==
    /\ cmd[k].pc = "invalidate"
    /\ pattern_cache' = invalidate_cache(pattern_cache, cmd[k].guild, cmd[k].channel)
    /\ cmd' = [cmd EXCEPT ![k] = [@ EXCEPT !.pc = "done"]]
    /\ UNCHANGED <<guildData, channelData, memberData, memberLock, ev, nMsgs, nCmds>>

\* [p]filter clear / [p]filter channel clear (c = None for the guild list):
\* up to the read of the list
filter_clear(k, g, c) ==
    /\ c # None => GuildOf(c) = g
    /\ Issue(k, ListCmd(IF c = None THEN "_filter_clear" ELSE "_channel_clear", "prompt", g, c, <<>>))
    /\ UNCHANGED <<guildData, channelData, memberData, memberLock, pattern_cache, ev, nMsgs>>

\* an empty list ends the command; otherwise the yes/no prompt is sent
clear_prompt(k) ==
    /\ cmd[k].pc = "prompt"
    /\ cmd' = [cmd EXCEPT ![k] = IF cmd[k].cur_list = <<>>
                                 THEN [@ EXCEPT !.pc = "done", !.reply = "empty"]
                                 ELSE [@ EXCEPT !.pc = "wait_for"]]
    /\ UNCHANGED <<guildData, channelData, memberData, memberLock, pattern_cache, ev, nMsgs, nCmds>>

\* the clear that treats every answer but "no" as a confirmation
clear_answer_unless_no(k, answer) ==
    /\ cmd[k].pc = "wait_for"
    /\ IF answer # "no"
       THEN /\ IF cmd[k].channel = None
               THEN /\ guildData' = [guildData EXCEPT ![cmd[k].guild].filter = <<>>]
                    /\ UNCHANGED channelData
               ELSE /\ channelData' = [channelData EXCEPT ![cmd[k].channel] = <<>>]
                    /\ UNCHANGED guildData
            /\ cmd' = [cmd EXCEPT ![k] = [@ EXCEPT !.pc = "cleared", !.changed = TRUE,
                                                   !.reply = answer]]
       ELSE /\ cmd' = [cmd EXCEPT ![k] = [@ EXCEPT !.pc = "done", !.reply = answer]]
            /\ UNCHANGED <<guildData, channelData>>
    /\ UNCHANGED <<memberData, memberLock, pattern_cache, ev, nMsgs, nCmds>>

\* wait_for returns: "timeout" and "no" end the command, "yes" clears the list
clear_answer(k, answer) ==
    /\ cmd[k].pc = "wait_for"
    /\ IF answer = "yes"
       THEN /\ IF cmd[k].channel = None
               THEN /\ guildData' = [guildData EXCEPT ![cmd[k].guild].filter = <<>>]
                    /\ UNCHANGED channelData
               ELSE /\ channelData' = [channelData EXCEPT ![cmd[k].channel] = default_channel_settings]
                    /\ UNCHANGED guildData
            /\ cmd' = [cmd EXCEPT ![k] = [@ EXCEPT !.pc = "cleared", !.changed = TRUE]]
       ELSE /\ cmd' = [cmd EXCEPT ![k] = [@ EXCEPT !.pc = "done", !.reply = answer]]
            /\ UNCHANGED <<guildData, channelData>>
    /\ UNCHANGED <<memberData, memberLock, pattern_cache, ev, nMsgs, nCmds>>

\* after filter.clear(): invalidate_cache, then the reply
clear_invalidate(k) ==
    /\ cmd[k].pc = "cleared"
    /\ pattern_cache' = invalidate_cache(pattern_cache, cmd[k].guild, cmd[k].channel)
    /\ cmd' = [cmd EXCEPT ![k] = [@ EXCEPT !.pc = "done", !.reply = "changed"]]
    /\ UNCHANGED <<guildData, channelData, memberData, memberLock, ev, nMsgs, nCmds>>

\* the check of filterset ban / filterset mute that rejects the arguments
ConfigRejected(count, timeframe) == (count <= 0) # (timeframe <= 0)

\* the values the two accepting branches store
ConfigStored(count, timeframe) ==
    IF count = 0 /\ timeframe = 0 THEN <<0, 0>> ELSE <<count, timeframe>>

CfgCmd(kind, g, count, timeframe) ==
    [IdleCmd EXCEPT !.kind = kind, !.guild = g, !.count = count, !.timeframe = timeframe,
                    !.pre = guildData[g], !.guild_data = guildData[g],
                    !.pc = IF ConfigRejected(count, timeframe) THEN "done" ELSE "config_write",
                    !.reply = IF ConfigRejected(count, timeframe) THEN "rejected" ELSE None]

\* [p]filterset ban <count> <timeframe>: rejected, or up to the read of the
\* guild dict by `async with config.guild(g).all()`
filter_ban(k, g, count, timeframe) ==
    /\ Issue(k, CfgCmd("filter_ban", g, count, timeframe))
    /\ UNCHANGED <<guildData, channelData, memberData, memberLock, pattern_cache, ev, nMsgs>>

\* [p]filterset mute <count> <timeframe>
filter_mute(k, g, count, timeframe) ==
    /\ Issue(k, CfgCmd("filter_mute", g, count, timeframe))
    /\ UNCHANGED <<guildData, channelData, memberData, memberLock, pattern_cache, ev, nMsgs>>

\* the body of the context manager and its exit: the whole guild dict is
\* written back when it has changed
config_write(k) ==
    /\ cmd[k].pc = "config_write"
    /\ LET st == ConfigStored(cmd[k].count, cmd[k].timeframe)
           new == IF cmd[k].kind = "filter_ban"
                  THEN [cmd[k].guild_data EXCEPT !.filterban_count = st[1], !.filterban_time = st[2]]
                  ELSE [cmd[k].guild_data EXCEPT !.filtermute_count = st[1], !.filtermute_time = st[2]]
       IN /\ guildData' = IF new = cmd[k].guild_data THEN guildData
                          ELSE [guildData EXCEPT ![cmd[k].guild] = new]
          /\ cmd' = [cmd EXCEPT ![k] = [@ EXCEPT !.pc = "done", !.guild_data = new,
                         !.reply = IF st = <<0, 0>> THEN "disabled" ELSE "set"]]
    /\ UNCHANGED <<channelData, memberData, memberLock, pattern_cache, ev, nMsgs, nCmds>>

\* [p]filterset defaultname <name>: filter_default_name.set(name)
filter_default_name(k, g, name) ==
    /\ Issue(k, [IdleCmd EXCEPT !.kind = "filter_default_name", !.pc = "done", !.guild = g,
                                !.pre = guildData[g], !.reply = "set"])
    /\ guildData' = [guildData EXCEPT ![g].filter_default_name = name]
    /\ UNCHANGED <<channelData, memberData, memberLock, pattern_cache, ev, nMsgs>>

\* [p]filter names: up to the read of the guild dict by
\* `async with config.guild(guild).all()`
filter_names(k, g) ==
    /\ Issue(k, [IdleCmd EXCEPT !.kind = "filter_names", !.pc = "names_write", !.guild = g,
                                !.pre = guildData[g], !.guild_data = guildData[g]])
    /\ UNCHANGED <<guildData, channelData, memberData, memberLock, pattern_cache, ev, nMsgs>>

\* the toggle and the exit of the context manager: the whole guild dict is
\* written back
filter_names_write(k) ==
    /\ cmd[k].pc = "names_write"
    /\ LET new == [cmd[k].guild_data EXCEPT !.filter_names = ~@]
       IN /\ guildData' = [guildData EXCEPT ![cmd[k].guild] = new]
          /\ cmd' = [cmd EXCEPT ![k] = [@ EXCEPT !.pc = "done", !.guild_data = new,
                         !.reply = IF new.filter_names THEN "on" ELSE "off"]]
    /\ UNCHANGED <<channelData, memberData, memberLock, pattern_cache, ev, nMsgs, nCmds>>

\* the requester kinds of red_delete_data_for_user
Requesters == {"discord_deleted_user", "owner", "user", "user_strict"}

\* red_delete_data_for_user: `if requester != "discord_deleted_user": return`,
\* else up to the read of config.all_members()
red_delete_data_for_user(k, requester, user) ==
    /\ Issue(k, [IdleCmd EXCEPT !.kind = "red_delete_data_for_user", !.requester = requester,
                    !.user = user,
                    !.pc = IF requester # "discord_deleted_user" THEN "done" ELSE "all_members"])
    /\ UNCHANGED <<guildData, channelData, memberData, memberLock, pattern_cache, ev, nMsgs>>

\* all_members = await self.config.all_members(): the guilds that hold data
\* of the user, as read now
rd_all_members(k) ==
    /\ cmd[k].pc = "all_members"
    /\ LET found == {g \in Guilds : memberData[g][cmd[k].user] # default_member_settings}
       IN cmd' = [cmd EXCEPT ![k] = [@ EXCEPT !.all_members = found,
                                             !.pc = IF found = {} THEN "done" ELSE "clear"]]
    /\ UNCHANGED <<guildData, channelData, memberData, memberLock, pattern_cache, ev, nMsgs, nCmds>>

\* one turn of the loop: await self.config.member_from_ids(guild_id, user_id).clear()
rd_clear(k, g) ==
    /\ cmd[k].pc = "clear"
    /\ g \in cmd[k].all_members
    /\ memberData' = [memberData EXCEPT ![g][cmd[k].user] = default_member_settings]
    /\ cmd' = [cmd EXCEPT ![k] = [@ EXCEPT !.all_members = @ \ {g},
                                           !.pc = IF cmd[k].all_members = {g} THEN "done" ELSE "clear"]]
    /\ UNCHANGED <<guildData, channelData, memberLock, pattern_cache, ev, nMsgs, nCmds>>

\* one step of a running red_delete_data_for_user
DeleteStep(k) ==
    \/ rd_all_members(k)
    \/ \E g \in Guilds : rd_clear(k, g)

\* ------------------------------------------------------------- check_filter

\* the ban guard written with >= in place of >
BanEnabledLax(gd) == gd.filterban_count >= 0 /\ gd.filterban_time >= 0

\* `filterban_count > 0 and filterban_time > 0`
BanEnabled(gd) == gd.filterban_count > 0 /\ gd.filterban_time > 0

\* `filtermute_count > 0 and filtermute_time > 0` (the author of a message
\* that passed on_message is a discord.Member)
MuteEnabled(gd) == gd.filtermute_count > 0 /\ gd.filtermute_time > 0

\* the ban reset condition written with > in place of >=
BanResetDueStrict(r) ==
    BanEnabled(r.guild_data) /\ r.msg.created_at > r.user_filterban_next_reset_time

\* `created_at.timestamp() >= user_filterban_next_reset_time`, ban enabled
BanResetDue(r) ==
    BanEnabled(r.guild_data) /\ r.msg.created_at >= r.user_filterban_next_reset_time

MuteResetDue(r) ==
    MuteEnabled(r.guild_data) /\ r.msg.created_at >= r.user_filtermute_next_reset_time

\* the ban check after the increment
BanTriggered(r) ==
    /\ r.user_filterban_count >= r.guild_data.filterban_count
    /\ r.msg.created_at < r.user_filterban_next_reset_time

\* the mute check after the increment
MuteTriggered(r) ==
    /\ r.user_filtermute_count >= r.guild_data.filtermute_count
    /\ r.msg.created_at < r.user_filtermute_next_reset_time

\* where check_filter goes on after the ban reset pass
AfterBanReset(r) == IF MuteResetDue(r) THEN "mute_reset_enter" ELSE "filter_hits"

\* where check_filter goes on after the ban block
AfterBan(r) == IF MuteEnabled(r.guild_data) THEN "mute_incr" ELSE "done"

\* the counters run after the try statement whatever it caught (no else)
ElseBranchAlways(deleteOk, notifyOk) == TRUE

\* the try / except discord.HTTPException / else around message.delete() and
\* notify_channel.send(): the else branch runs when neither call raised
ElseBranchRuns(deleteOk, notifyOk) == deleteOk /\ notifyOk

\* a listener that has returned keeps no locals of its context managers
Settle(r) ==
    IF r.pc = "done" THEN [r EXCEPT !.member_data = default_member_settings, !.word_list = {}]
    ELSE r

Becomes(e, r) == ev' = [ev EXCEPT ![e] = Settle(r)]

EvFree(e) == ev[e].pc \in {"idle", "done"}

\* on_message / on_message_edit for a guild message of a member that is not
\* immune, the cog enabled: up to the call of check_filter.  (A message that
\* on_message drops changes nothing.)
on_message(e, msg) ==
    /\ EvFree(e)
    /\ msg.guild # None
    /\ ev' = [ev EXCEPT ![e] = [IdleEv EXCEPT !.pc = "guild_data", !.msg = msg,
                   !.pre = memberData[msg.guild][msg.author]]]
    /\ nMsgs' = nMsgs + 1
    /\ UNCHANGED <<guildData, channelData, memberData, memberLock, pattern_cache, cmd, nCmds>>

\* guild_data = await self.config.guild(guild).all()
cf_guild_data(e) ==
    /\ ev[e].pc = "guild_data"
    /\ Becomes(e, [ev[e] EXCEPT !.pc = "member_data",
                                         !.guild_data = guildData[ev[e].msg.guild]])
    /\ UNCHANGED <<guildData, channelData, memberData, memberLock, pattern_cache, cmd, nMsgs, nCmds>>

\* member_data = await self.config.member(author).all(), and the locals
cf_member_data(e) ==
    /\ ev[e].pc = "member_data"
    /\ LET md == memberData[ev[e].msg.guild][ev[e].msg.author]
           r == [ev[e] EXCEPT !.user_filterban_count = md.filterban_count,
                              !.user_filterban_next_reset_time = md.filterban_next_reset_time,
                              !.user_filtermute_count = md.filtermute_count,
                              !.user_filtermute_next_reset_time = md.filtermute_next_reset_time]
       IN Becomes(e, [r EXCEPT !.pc = IF BanResetDue(r) THEN "ban_reset_enter"
                                                   ELSE AfterBanReset(r)])
    /\ UNCHANGED <<guildData, channelData, memberData, memberLock, pattern_cache, cmd, nMsgs, nCmds>>

\* ban reset pass: the new window end, and `async with config.member(author).all()`
\* entered (its lock taken, the member dict read)
cf_ban_reset_enter(e) ==
    /\ ev[e].pc = "ban_reset_enter"
    /\ LET g == ev[e].msg.guild
           a == ev[e].msg.author
       IN /\ memberLock[g][a] = None
          /\ memberLock' = [memberLock EXCEPT ![g][a] = e]
          /\ Becomes(e, [ev[e] EXCEPT !.pc = "ban_reset_exit",
                        !.user_filterban_next_reset_time =
                            ev[e].msg.created_at + ev[e].guild_data.filterban_time,
                        !.member_data = memberData[g][a]])
    /\ UNCHANGED <<guildData, channelData, memberData, pattern_cache, cmd, nMsgs, nCmds>>

\* ban reset pass: the body of the context manager and its exit (the whole
\* member dict written back when changed, the lock released)
cf_ban_reset_exit(e) ==
    /\ ev[e].pc = "ban_reset_exit"
    /\ LET g == ev[e].msg.guild
           a == ev[e].msg.author
           zero == ev[e].user_filterban_count > 0
           md1 == [ev[e].member_data EXCEPT
                     !.filterban_next_reset_time = ev[e].user_filterban_next_reset_time]
           md == IF zero THEN [md1 EXCEPT !.filterban_count = 0] ELSE md1
           r == [ev[e] EXCEPT !.member_data = md, !.ban_reset = TRUE,
                              !.user_filterban_count = IF zero THEN 0 ELSE @]
       IN /\ memberData' = IF md = ev[e].member_data THEN memberData
                           ELSE [memberData EXCEPT ![g][a] = md]
          /\ memberLock' = [memberLock EXCEPT ![g][a] = None]
          /\ Becomes(e, [r EXCEPT !.pc = AfterBanReset(r)])
    /\ UNCHANGED <<guildData, channelData, pattern_cache, cmd, nMsgs, nCmds>>

\* mute reset pass, entered
cf_mute_reset_enter(e) ==
    /\ ev[e].pc = "mute_reset_enter"
    /\ LET g == ev[e].msg.guild
           a == ev[e].msg.author
       IN /\ memberLock[g][a] = None
          /\ memberLock' = [memberLock EXCEPT ![g][a] = e]
          /\ Becomes(e, [ev[e] EXCEPT !.pc = "mute_reset_exit",
                        !.user_filtermute_next_reset_time =
                            ev[e].msg.created_at + ev[e].guild_data.filtermute_time,
                        !.member_data = memberData[g][a]])
    /\ UNCHANGED <<guildData, channelData, memberData, pattern_cache, cmd, nMsgs, nCmds>>

\* mute reset pass: body and exit
cf_mute_reset_exit(e) ==
    /\ ev[e].pc = "mute_reset_exit"
    /\ LET g == ev[e].msg.guild
           a == ev[e].msg.author
           zero == ev[e].user_filtermute_count > 0
           md1 == [ev[e].member_data EXCEPT
                     !.filtermute_next_reset_time = ev[e].user_filtermute_next_reset_time]
           md == IF zero THEN [md1 EXCEPT !.filtermute_count = 0] ELSE md1
       IN /\ memberData' = IF md = ev[e].member_data THEN memberData
                           ELSE [memberData EXCEPT ![g][a] = md]
          /\ memberLock' = [memberLock EXCEPT ![g][a] = None]
          /\ Becomes(e, [ev[e] EXCEPT !.pc = "filter_hits", !.member_data = md,
                        !.mute_reset = TRUE,
                        !.user_filtermute_count = IF zero THEN 0 ELSE @])
    /\ UNCHANGED <<guildData, channelData, pattern_cache, cmd, nMsgs, nCmds>>

\* check_filter going on to the case and the deletion without `if hits:`
WithHitsUnguarded(r, hits) ==
    IF r.kind = "name"
    THEN [r EXCEPT !.pc = IF hits = {} THEN "done" ELSE "edit_nick", !.hits = hits]
    ELSE [r EXCEPT !.pc = "delete", !.hits = hits, !.filterhit_cases = @ + 1]

\* the caller after `await self.filter_hits(...)`.  check_filter: no hits end
\* it, hits log the filterhit case (modlog.create_case) before the deletion.
\* maybe_filter_name: no hits end it, hits go on to member.edit
WithHits(r, hits) ==
    IF hits = {}
    THEN [r EXCEPT !.pc = "done", !.hits = hits]
    ELSE IF r.kind = "name"
         THEN [r EXCEPT !.pc = "edit_nick", !.hits = hits]
         ELSE [r EXCEPT !.pc = "delete", !.hits = hits, !.filterhit_cases = @ + 1]

\* filter_hits that never reads the channel list
cf_fh_channel_skipped(e) ==
    /\ ev[e].pc = "fh_channel"
    /\ Becomes(e, [ev[e] EXCEPT !.pc = "fh_compile"])
    /\ UNCHANGED <<guildData, channelData, memberData, memberLock, pattern_cache, cmd, nMsgs, nCmds>>

\* filter_hits: the cache lookup; a cached pattern is matched at once, a miss
\* reads the guild list (`if channel:` skips the channel list of a guild scope)
cf_filter_hits(e) ==
    /\ ev[e].pc = "filter_hits"
    /\ LET slot == pattern_cache[<<ev[e].msg.guild, ev[e].msg.channel>>]
       IN Becomes(e,
                   IF slot.present
                   THEN WithHits(ev[e], Findall(slot.pattern, ev[e].msg.content))
                   ELSE [ev[e] EXCEPT
                           !.pc = IF ev[e].msg.channel = None THEN "fh_compile" ELSE "fh_channel",
                           !.word_list = Range(guildData[ev[e].msg.guild].filter)])
    /\ UNCHANGED <<guildData, channelData, memberData, memberLock, pattern_cache, cmd, nMsgs, nCmds>>

\* filter_hits: word_list |= set(await self.config.channel(channel).filter())
cf_fh_channel(e) ==
    /\ ev[e].pc = "fh_channel"
    /\ Becomes(e, [ev[e] EXCEPT !.pc = "fh_compile",
                  !.word_list = @ \cup Range(channelData[ev[e].msg.channel])])
    /\ UNCHANGED <<guildData, channelData, memberData, memberLock, pattern_cache, cmd, nMsgs, nCmds>>

\* filter_hits: re.compile over word_list (None when empty), the store into
\* pattern_cache, and the match
cf_fh_compile(e, order) ==
    /\ ev[e].pc = "fh_compile"
    /\ order \in Orderings(ev[e].word_list)
    /\ pattern_cache' = [pattern_cache EXCEPT
                           ![<<ev[e].msg.guild, ev[e].msg.channel>>] = Cached(order)]
    /\ Becomes(e, WithHits(ev[e], Findall(order, ev[e].msg.content)))
    /\ UNCHANGED <<guildData, channelData, memberData, memberLock, cmd, nMsgs, nCmds>>

\* the end of the try statement: the else branch dispatches
\* filter_message_delete and goes on to the counters, the except branch ends
\* check_filter
AfterTry(r, deleteOk, notifyOk) ==
    IF ElseBranchRuns(deleteOk, notifyOk)
    THEN [r EXCEPT !.dispatched = Append(@, r.hits),
                   !.pc = IF BanEnabled(r.guild_data) THEN "ban_incr" ELSE AfterBan(r)]
    ELSE [r EXCEPT !.pc = "done"]

\* await message.delete()
cf_delete(e, ok) ==
    /\ ev[e].pc = "delete"
    /\ Becomes(e,
                IF ok THEN [ev[e] EXCEPT !.pc = "notify", !.deleted = "ok"]
                ELSE AfterTry([ev[e] EXCEPT !.deleted = "failed"], FALSE, FALSE))
    /\ UNCHANGED <<guildData, channelData, memberData, memberLock, pattern_cache, cmd, nMsgs, nCmds>>

\* await notify_channel.send(box(notify_message))
cf_notify(e, ok) ==
    /\ ev[e].pc = "notify"
    /\ Becomes(e,
                AfterTry([ev[e] EXCEPT !.notified = IF ok THEN "ok" ELSE "failed"], TRUE, ok))
    /\ UNCHANGED <<guildData, channelData, memberData, memberLock, pattern_cache, cmd, nMsgs, nCmds>>

\* user_filterban_count += 1 and filterban_count.set(user_filterban_count)
cf_ban_incr(e) ==
    /\ ev[e].pc = "ban_incr"
    /\ LET r == [ev[e] EXCEPT !.user_filterban_count = @ + 1, !.ban_written = TRUE]
       IN /\ memberData' = [memberData EXCEPT
                 ![r.msg.guild][r.msg.author].filterban_count = r.user_filterban_count]
          /\ Becomes(e,
                      [r EXCEPT !.pc = IF BanTriggered(r) THEN "ban_request" ELSE AfterBan(r)])
    /\ UNCHANGED <<guildData, channelData, memberLock, pattern_cache, cmd, nMsgs, nCmds>>

\* the ban request with the filterban case logged after the try statement
\* whatever it caught (no else)
cf_ban_request_case_always(e, ok) ==
    /\ ev[e].pc = "ban_request"
    /\ Becomes(e, [ev[e] EXCEPT !.ban = IF ok THEN "ok" ELSE "failed", !.pc = "ban_case"])
    /\ UNCHANGED <<guildData, channelData, memberData, memberLock, pattern_cache, cmd, nMsgs, nCmds>>

\* await guild.ban(author, reason=reason); a failure is passed over
cf_ban_request(e, ok) ==
    /\ ev[e].pc = "ban_request"
    /\ Becomes(e,
                IF ok THEN [ev[e] EXCEPT !.ban = "ok", !.pc = "ban_case"]
                ELSE [ev[e] EXCEPT !.ban = "failed", !.pc = AfterBan(ev[e])])
    /\ UNCHANGED <<guildData, channelData, memberData, memberLock, pattern_cache, cmd, nMsgs, nCmds>>

\* the filterban case after a successful ban
cf_ban_case(e) ==
    /\ ev[e].pc = "ban_case"
    /\ Becomes(e, [ev[e] EXCEPT !.filterban_cases = @ + 1, !.pc = AfterBan(ev[e])])
    /\ UNCHANGED <<guildData, channelData, memberData, memberLock, pattern_cache, cmd, nMsgs, nCmds>>

\* user_filtermute_count += 1 and filtermute_count.set(user_filtermute_count)
cf_mute_incr(e) ==
    /\ ev[e].pc = "mute_incr"
    /\ LET r == [ev[e] EXCEPT !.user_filtermute_count = @ + 1, !.mute_written = TRUE]
       IN /\ memberData' = [memberData EXCEPT
                 ![r.msg.guild][r.msg.author].filtermute_count = r.user_filtermute_count]
          /\ Becomes(e,
                      [r EXCEPT !.pc = IF MuteTriggered(r) THEN "mute_trigger" ELSE "done"])
    /\ UNCHANGED <<guildData, channelData, memberLock, pattern_cache, cmd, nMsgs, nCmds>>

\* the mute block: `ctx` is not a name of check_filter, so
\* `ctx.bot.get_cog("Mutes")` raises NameError and no mute is requested
cf_mute_trigger(e) ==
    /\ ev[e].pc = "mute_trigger"
    /\ Becomes(e, [ev[e] EXCEPT !.raised = TRUE, !.pc = "done"])
    /\ UNCHANGED <<guildData, channelData, memberData, memberLock, pattern_cache, cmd, nMsgs, nCmds>>

\* every outcome of the four early checks
Checks == [enabled : BOOLEAN, manage_nicknames : BOOLEAN, hierarchy : BOOLEAN,
           not_immune : BOOLEAN]

\* maybe_filter_name without its early returns
maybe_filter_name_unchecked(e, g, m, name, chk) ==
    /\ EvFree(e)
    /\ ev' = [ev EXCEPT ![e] = [IdleEv EXCEPT !.kind = "name", !.checks = chk,
                   !.msg = [NoMsg EXCEPT !.guild = g, !.author = m, !.content = name],
                   !.pre = memberData[g][m], !.pc = "mfn_guild_data"]]
    /\ nMsgs' = nMsgs + 1
    /\ UNCHANGED <<guildData, channelData, memberData, memberLock, pattern_cache, cmd, nCmds>>

\* on_member_join / on_member_update: maybe_filter_name with the outcomes chk
\* of its early checks; a failed check returns, else it goes up to the read
\* of the guild dict
maybe_filter_name_checked(e, g, m, name, chk) ==
    /\ EvFree(e)
    /\ ev' = [ev EXCEPT ![e] = [IdleEv EXCEPT !.kind = "name", !.checks = chk,
                   !.msg = [NoMsg EXCEPT !.guild = g, !.author = m, !.content = name],
                   !.pre = memberData[g][m],
                   !.pc = IF chk = AllPass THEN "mfn_guild_data" ELSE "done"]]
    /\ nMsgs' = nMsgs + 1
    /\ UNCHANGED <<guildData, channelData, memberData, memberLock, pattern_cache, cmd, nCmds>>

\* maybe_filter_name for a member whose name it goes on to check (every early
\* check passes)
maybe_filter_name(e, g, m, name) == maybe_filter_name_checked(e, g, m, name, AllPass)

\* maybe_filter_name: guild_data read; `if not guild_data["filter_names"]: return`
mfn_guild_data(e) ==
    /\ ev[e].pc = "mfn_guild_data"
    /\ LET gd == guildData[ev[e].msg.guild]
       IN Becomes(e, [ev[e] EXCEPT !.guild_data = gd,
                        !.pc = IF gd.filter_names THEN "filter_hits" ELSE "done"])
    /\ UNCHANGED <<guildData, channelData, memberData, memberLock, pattern_cache, cmd, nMsgs, nCmds>>

\* maybe_filter_name: await member.edit(nick=name_to_use, ...); a failure is
\* passed over
mfn_edit(e, ok) ==
    /\ ev[e].pc = "edit_nick"
    /\ Becomes(e, [ev[e] EXCEPT !.pc = "done", !.renamed = IF ok THEN "ok" ELSE "failed",
                                 !.renamed_to = ev[e].guild_data.filter_default_name])
    /\ UNCHANGED <<guildData, channelData, memberData, memberLock, pattern_cache, cmd, nMsgs, nCmds>>

\* one step of a running maybe_filter_name outside filter_hits
NameStep(e) ==
    \/ mfn_guild_data(e)
    \/ \E ok \in BOOLEAN : mfn_edit(e, ok)

\* check_filter up to the reset pass
ReadStep(e) ==
    \/ cf_guild_data(e)
    \/ cf_member_data(e)

\* the reset pass of check_filter
ResetStep(e) ==
    \/ cf_ban_reset_enter(e)
    \/ cf_ban_reset_exit(e)
    \/ cf_mute_reset_enter(e)
    \/ cf_mute_reset_exit(e)

\* filter_hits, the filterhit case and the deletion
HitStep(e) ==
    \/ cf_filter_hits(e)
    \/ cf_fh_channel(e)
    \/ \E order \in Orderings(ev[e].word_list) : cf_fh_compile(e, order)
    \/ \E ok \in BOOLEAN : cf_delete(e, ok)
    \/ \E ok \in BOOLEAN : cf_notify(e, ok)

\* the counters and the ban / mute blocks
EscalationStep(e) ==
    \/ cf_ban_incr(e)
    \/ \E ok \in BOOLEAN : cf_ban_request(e, ok)
    \/ cf_ban_case(e)
    \/ cf_mute_incr(e)
    \/ cf_mute_trigger(e)

\* one step of a running check_filter
CheckFilterStep(e) ==
    \/ ReadStep(e)
    \/ ResetStep(e)
    \/ HitStep(e)
    \/ EscalationStep(e)

\* ------------------------------------------------------------- specifications

Message(g, c, a, t, text) ==
    [guild |-> g, channel |-> c, author |-> a, created_at |-> t, content |-> text]

\* the arguments of filterset ban / filterset mute in the escalation runs
EscArgs == {<<0, 0>>, <<2, 5>>}

\* the timestamps of concurrent messages
EscTimes == {1, 6}

\* the message texts: one holds the filtered term, one does not
Texts == {<<"a">>, <<"b">>}

\* guild g1 with the list ["a"] and the given autoban / automute settings
EscGuild(ban, mute) ==
    [default_guild_settings EXCEPT !.filter = << <<"a">> >>,
        !.filterban_count = ban[1], !.filterban_time = ban[2],
        !.filtermute_count = mute[1], !.filtermute_time = mute[2]]

\* member m1 after one deleted violation at time 0 under the settings gd
AfterOneViolation(gd) ==
    [filterban_count |-> IF BanEnabled(gd) THEN 1 ELSE 0,
     filterban_next_reset_time |-> IF BanEnabled(gd) THEN gd.filterban_time ELSE 0,
     filtermute_count |-> IF MuteEnabled(gd) THEN 1 ELSE 0,
     filtermute_next_reset_time |-> IF MuteEnabled(gd) THEN gd.filtermute_time ELSE 0]

\* The escalation runs start in guild g1 after `filter add a` and the
\* filterset calls, either before any message or after member m1's first
\* deleted violation at time 0 (which also compiled the pattern of c1).
InitEsc ==
    /\ \E ban \in EscArgs, mute \in EscArgs, first \in BOOLEAN :
          /\ guildData = [g \in Guilds |->
                IF g = "g1" THEN EscGuild(ban, mute) ELSE default_guild_settings]
          /\ memberData = [g \in Guilds |-> [m \in Members |->
                IF g = "g1" /\ first THEN AfterOneViolation(EscGuild(ban, mute))
                ELSE default_member_settings]]
          /\ pattern_cache = [key \in CacheKeys |->
                IF key = <<"g1", "c1">> /\ first THEN Cached(<< <<"a">> >>) ELSE Absent]
    /\ channelData = [c \in Channels |-> default_channel_settings]
    /\ memberLock = [g \in Guilds |-> [m \in Members |-> None]]
    /\ ev = [e \in Events |-> IdleEv]
    /\ cmd = [k \in Cmds |-> IdleCmd]
    /\ nMsgs = 0
    /\ nCmds = 0

\* escalation: concurrent messages of one member in one channel under fixed
\* autoban / automute settings
NextEsc ==
    \/ /\ nMsgs < MaxMsgs
       /\ \E e \in Events, t \in EscTimes, text \in Texts :
             on_message(e, Message("g1", "c1", "m1", t, text))
    \/ \E e \in Events : CheckFilterStep(e)

SpecEsc == InitEsc /\ [][NextEsc]_vars

\* no listener and no command is between two of its steps
Quiescent ==
    /\ \A e \in Events : ev[e].pc \in {"idle", "done"}
    /\ \A k \in Cmds : cmd[k].pc \in {"idle", "done"}

\* the timestamps of messages handled one at a time
SeqTimes == {0, 1, 6}

\* one listener and one command at a time, from the state after construction:
\* `filter add a`, the filterset calls, and messages of member m1 in c1
NextSeq ==
    \/ /\ nMsgs < MaxSeqMsgs
       /\ Quiescent
       /\ \E t \in SeqTimes, text \in Texts :
             on_message("e1", Message("g1", "c1", "m1", t, text))
    \/ CheckFilterStep("e1")
    \/ /\ nCmds < MaxSeqCmds
       /\ Quiescent
       /\ \E k \in Cmds : filter_add(k, "g1", << <<"a">> >>)
    \/ \E k \in Cmds : add_to_filter(k)
    \/ \E k \in Cmds : InvalidateThenReply(k)
    \/ /\ nCmds < MaxSeqCmds
       /\ Quiescent
       /\ \E k \in Cmds, a \in EscArgs : filter_ban(k, "g1", a[1], a[2])
    \/ /\ nCmds < MaxSeqCmds
       /\ Quiescent
       /\ \E k \in Cmds, a \in EscArgs : filter_mute(k, "g1", a[1], a[2])
    \/ \E k \in Cmds : config_write(k)

SpecSeq == Init /\ [][NextSeq]_vars

\* the arguments of filterset ban / filterset mute, negative ones included
CfgArgs == (-1)..MaxArg

\* the filterset ban / filterset mute calls alone
NextCfg ==
    \/ /\ nCmds < MaxCfgCmds
       /\ \E k \in Cmds, c \in CfgArgs, t \in CfgArgs : filter_ban(k, "g1", c, t)
    \/ /\ nCmds < MaxCfgCmds
       /\ \E k \in Cmds, c \in CfgArgs, t \in CfgArgs : filter_mute(k, "g1", c, t)
    \/ \E k \in Cmds : config_write(k)

SpecCfg == Init /\ [][NextCfg]_vars

\* the word tuples of the filter commands in the cache runs
CacheWords == {<< <<"a">> >>}

\* the commands that change a filter list, on guild g1 and its channel c1
ListCommand(k) ==
    \/ \E w \in CacheWords : filter_add(k, "g1", w)
    \/ \E w \in CacheWords : filter_remove(k, "g1", w)
    \/ \E w \in CacheWords : filter_channel_add(k, "c1", w)
    \/ \E w \in CacheWords : filter_channel_remove(k, "c1", w)
    \/ \E c \in {None, "c1"} : filter_clear(k, "g1", c)

\* one step of a running list command; sends is the set of outcomes of the
\* reply send of filter channel remove
ListCommandStep(k, sends) ==
    \/ add_to_filter(k)
    \/ remove_from_filter(k)
    \/ InvalidateThenReply(k)
    \/ \E ok \in sends : filter_channel_remove_reply(k, ok)
    \/ filter_channel_remove_invalidate(k)
    \/ clear_prompt(k)
    \/ \E answer \in {"yes", "no", "timeout"} : clear_answer(k, answer)
    \/ clear_invalidate(k)

\* the cache, one listener and one command at a time: list commands and
\* messages in c1.  Autoban and automute stay off (their default), so
\* check_filter never enters its reset pass or its counters
NextCacheSeq ==
    \/ /\ nMsgs < MaxSeqMsgs
       /\ Quiescent
       /\ on_message("e1", Message("g1", "c1", "m1", 0, <<"a">>))
    \/ ReadStep("e1")
    \/ HitStep("e1")
    \/ /\ nCmds < MaxCmds
       /\ Quiescent
       /\ \E k \in Cmds : ListCommand(k)
    \/ \E k \in Cmds : ListCommandStep(k, BOOLEAN)

SpecCacheSeq == Init /\ [][NextCacheSeq]_vars

\* the cache under concurrency: listeners and a list command interleave at
\* their awaits; every reply is sent
NextCache ==
    \/ /\ nMsgs < MaxMsgs
       /\ \E e \in Events : on_message(e, Message("g1", "c1", "m1", 0, <<"a">>))
    \/ \E e \in Events : ReadStep(e)
    \/ \E e \in Events : HitStep(e)
    \/ /\ nCmds < MaxCmds
       /\ \E k \in Cmds : ListCommand(k)
    \/ \E k \in Cmds : ListCommandStep(k, {TRUE})

SpecCache == Init /\ [][NextCache]_vars

\* the characters of the matched texts: a word character in both cases, and
\* a character that is no word character and a regex metacharacter
MatchChars == {"a", "A", "."}

\* longest matched text
MaxTextLen == 3

\* every text of at most MaxTextLen characters
MatchTexts == UNION {[1..n -> MatchChars] : n \in 1..MaxTextLen}

\* the guild lists of the matching runs: empty, a word, and a term that ends
\* with a non-word character
MatchGuildLists == {<<>>, << <<"a">> >>, << <<"a", ".">> >>}

\* the lists of channel c1 in the matching runs: empty, and a term that
\* begins with a non-word character
MatchChannelLists == {<<>>, << <<".", "a">> >>}

\* name and message events handled in one matching run
MaxMatchMsgs == 2

\* The matching runs start in guild g1 after filter add / filter channel add
\* commands have stored the lists (c2 keeps its empty list) and filter names
\* has toggled name filtering on.
InitMatch ==
    /\ \E gl \in MatchGuildLists :
          guildData = [g \in Guilds |->
              IF g = "g1" THEN [default_guild_settings EXCEPT !.filter = gl, !.filter_names = TRUE]
              ELSE default_guild_settings]
    /\ \E cl \in MatchChannelLists :
          channelData = [c \in Channels |-> IF c = "c1" THEN cl ELSE default_channel_settings]
    /\ memberData = [g \in Guilds |-> [m \in Members |-> default_member_settings]]
    /\ memberLock = [g \in Guilds |-> [m \in Members |-> None]]
    /\ pattern_cache = [key \in CacheKeys |-> Absent]
    /\ ev = [e \in Events |-> IdleEv]
    /\ cmd = [k \in Cmds |-> IdleCmd]
    /\ nMsgs = 0
    /\ nCmds = 0

\* matching: messages in c1 and c2 and member names in g1, one at a time,
\* over fixed lists.  Autoban and automute stay off
NextMatch ==
    \/ /\ nMsgs < MaxMatchMsgs
       /\ Quiescent
       /\ \E c \in {"c1", "c2"}, text \in MatchTexts :
             on_message("e1", Message("g1", c, "m1", 0, text))
    \/ /\ nMsgs < MaxMatchMsgs
       /\ Quiescent
       /\ \E name \in MatchTexts : maybe_filter_name("e1", "g1", "m1", name)
    \/ ReadStep("e1")
    \/ HitStep("e1")
    \/ NameStep("e1")

SpecMatch == InitMatch /\ [][NextMatch]_vars

\* the word tuples of the list runs: mixed case with a repeat, an empty
\* word, and two words
ListWords ==
    {<< <<"A">>, <<"a">> >>, << <<>>, <<"b">> >>, << <<"a">>, <<"b">> >>}

\* list commands issued in one list run
MaxListCmds == 2

\* name and message events handled in one list run
MaxListMsgs == 2

\* The list runs start after construction and `filter names` in both guilds.
InitList ==
    /\ guildData = [g \in Guilds |-> [default_guild_settings EXCEPT !.filter_names = TRUE]]
    /\ channelData = [c \in Channels |-> default_channel_settings]
    /\ memberData = [g \in Guilds |-> [m \in Members |-> default_member_settings]]
    /\ memberLock = [g \in Guilds |-> [m \in Members |-> None]]
    /\ pattern_cache = [key \in CacheKeys |-> Absent]
    /\ ev = [e \in Events |-> IdleEv]
    /\ cmd = [k \in Cmds |-> IdleCmd]
    /\ nMsgs = 0
    /\ nCmds = 0

\* the lists: list commands on guild g1 and its channel c1 with the word
\* tuples above, and between them messages in every channel and member names
\* in every guild, one listener and one command at a time.  Autoban and
\* automute stay off
NextList ==
    \/ /\ nCmds < MaxListCmds
       /\ Quiescent
       /\ \E k \in Cmds, w \in ListWords :
             \/ filter_add(k, "g1", w)
             \/ filter_remove(k, "g1", w)
             \/ filter_channel_add(k, "c1", w)
             \/ filter_channel_remove(k, "c1", w)
    \/ /\ nCmds < MaxListCmds
       /\ Quiescent
       /\ \E k \in Cmds, c \in {None, "c1"} : filter_clear(k, "g1", c)
    \/ \E k \in Cmds : ListCommandStep(k, BOOLEAN)
    \/ /\ nMsgs < MaxListMsgs
       /\ Quiescent
       /\ \E c \in Channels : on_message("e1", Message(GuildOf(c), c, "m1", 0, <<"a">>))
    \/ /\ nMsgs < MaxListMsgs
       /\ Quiescent
       /\ \E g \in Guilds : maybe_filter_name("e1", g, "m1", <<"a">>)
    \/ ReadStep("e1")
    \/ HitStep("e1")
    \/ NameStep("e1")

SpecList == InitList /\ [][NextList]_vars

\* data-deletion requests issued in one deletion run
MaxDelReqs == 2

\* messages handled in one deletion run
MaxDelMsgs == 2

\* deletion: from the states the escalation runs start in, messages of member
\* m1 in c1 and data-deletion requests for m1 of every requester kind, one
\* listener and one request at a time
NextDel ==
    \/ /\ nMsgs < MaxDelMsgs
       /\ Quiescent
       /\ \E t \in EscTimes, text \in Texts :
             on_message("e1", Message("g1", "c1", "m1", t, text))
    \/ CheckFilterStep("e1")
    \/ /\ nCmds < MaxDelReqs
       /\ Quiescent
       /\ \E k \in Cmds, requester \in Requesters :
             red_delete_data_for_user(k, requester, "m1")
    \/ \E k \in Cmds : DeleteStep(k)

SpecDel == InitEsc /\ [][NextDel]_vars

\* the names filterset defaultname sets
DefaultNames == {"John Doe", "Missingno"}

\* commands issued in one name run
MaxNameCmds == 2

\* join / rename events handled in one name run
MaxNameEvents == 2

\* The name runs start in guild g1 after `filter add a`, `filter channel add
\* b` in c1, `filterset ban 2 5` and one deleted violation of member m1 at
\* time 0, name filtering still off.
InitName ==
    /\ guildData = [g \in Guilds |->
          IF g = "g1" THEN EscGuild(<<2, 5>>, <<0, 0>>) ELSE default_guild_settings]
    /\ channelData = [c \in Channels |->
          IF c = "c1" THEN << <<"b">> >> ELSE default_channel_settings]
    /\ memberData = [g \in Guilds |-> [m \in Members |->
          IF g = "g1" THEN AfterOneViolation(EscGuild(<<2, 5>>, <<0, 0>>))
          ELSE default_member_settings]]
    /\ memberLock = [g \in Guilds |-> [m \in Members |-> None]]
    /\ pattern_cache = [key \in CacheKeys |->
          IF key = <<"g1", "c1">> THEN Cached(<< <<"a">>, <<"b">> >>) ELSE Absent]
    /\ ev = [e \in Events |-> IdleEv]
    /\ cmd = [k \in Cmds |-> IdleCmd]
    /\ nMsgs = 0
    /\ nCmds = 0

\* names: joins and renames of member m1 in g1 under every outcome of the
\* early checks, concurrent with each other, and between them filter names
\* and filterset defaultname
NextName ==
    \/ /\ nMsgs < MaxNameEvents
       /\ \E e \in Events, name \in Texts, chk \in Checks :
             maybe_filter_name_checked(e, "g1", "m1", name, chk)
    \/ \E e \in Events : NameStep(e)
    \/ \E e \in Events : cf_filter_hits(e)
    \/ \E e \in Events : \E order \in Orderings(ev[e].word_list) : cf_fh_compile(e, order)
    \/ /\ nCmds < MaxNameCmds
       /\ Quiescent
       /\ \E k \in Cmds : filter_names(k, "g1")
    \/ \E k \in Cmds : filter_names_write(k)
    \/ /\ nCmds < MaxNameCmds
       /\ Quiescent
       /\ \E k \in Cmds, name \in DefaultNames : filter_default_name(k, "g1", name)

SpecName == InitName /\ [][NextName]_vars

\* every operation, on every guild, channel and argument of the model
Next ==
    \/ /\ nMsgs < MaxSeqMsgs
       /\ \E e \in Events, c \in Channels, a \in Members, t \in SeqTimes, text \in Texts :
             on_message(e, Message(GuildOf(c), c, a, t, text))
    \/ \E e \in Events : CheckFilterStep(e)
    \/ /\ nMsgs < MaxSeqMsgs
       /\ \E e \in Events, g \in Guilds, a \in Members, name \in Texts, chk \in Checks :
             maybe_filter_name_checked(e, g, a, name, chk)
    \/ \E e \in Events : NameStep(e)
    \/ /\ nCmds < MaxSeqCmds
       /\ \E k \in Cmds, g \in Guilds : filter_names(k, g)
    \/ \E k \in Cmds : filter_names_write(k)
    \/ /\ nCmds < MaxSeqCmds
       /\ \E k \in Cmds, g \in Guilds, name \in DefaultNames : filter_default_name(k, g, name)
    \/ /\ nCmds < MaxSeqCmds
       /\ \E k \in Cmds, requester \in Requesters, a \in Members :
             red_delete_data_for_user(k, requester, a)
    \/ \E k \in Cmds : DeleteStep(k)
    \/ /\ nCmds < MaxSeqCmds
       /\ \E k \in Cmds, c \in Channels, w \in CacheWords :
             \/ filter_add(k, GuildOf(c), w)
             \/ filter_remove(k, GuildOf(c), w)
             \/ filter_channel_add(k, c, w)
             \/ filter_channel_remove(k, c, w)
             \/ filter_clear(k, GuildOf(c), None)
             \/ filter_clear(k, GuildOf(c), c)
    \/ \E k \in Cmds : ListCommandStep(k, BOOLEAN)
    \/ /\ nCmds < MaxSeqCmds
       /\ \E k \in Cmds, g \in Guilds, c \in CfgArgs, t \in CfgArgs :
             filter_ban(k, g, c, t) \/ filter_mute(k, g, c, t)
    \/ \E k \in Cmds : config_write(k)

Spec == Init /\ [][Next]_vars

\* ------------------------------------------------------------- claims

InFlight(e) == ev[e].pc \notin {"idle", "done"}

Done(e) == ev[e].pc = "done"

\* a cache slot that is absent, or compiled from the scope's current term set
Fresh(key) ==
    pattern_cache[key].present =>
        Range(pattern_cache[key].pattern) = EffectiveTerms(key[1], key[2])

\* the scopes whose effective term set depends on the list of (g, c)
AffectedKeys(g, c) ==
    IF c = None THEN {key \in CacheKeys : key[1] = g} ELSE {<<g, c>>}

\* C1: once a command that changed a filter list has ended (replied or
\* raised), with no listener running, no affected scope has a cache entry
\* compiled from another term set than the stored one, so the next
\* filter_hits matches the new term set.
C1_CacheFreshAfterCommand ==
    \A k \in Cmds :
        (cmd[k].pc = "done" /\ cmd[k].changed /\ \A e \in Events : ~InFlight(e))
        => \A key \in AffectedKeys(cmd[k].guild, cmd[k].channel) : Fresh(key)

\* C2: once a filter_hits that missed the cache and a list command that
\* interleaved with it have both finished, no cache entry is compiled from a
\* term set other than the stored one.
C2_NoStaleEntryAfterRace ==
    Quiescent => \A key \in CacheKeys : Fresh(key)

Min(a, b) == IF a <= b THEN a ELSE b

\* message of listener e: it had hits, was deleted, and the notice was sent
Counted(e) ==
    /\ Done(e)
    /\ ev[e].hits # {}
    /\ ev[e].deleted = "ok"
    /\ ev[e].notified = "ok"

\* C3: two check_filter runs for violating, deleted messages of one member
\* that both fall in the window that was live before either began leave
\* the persisted counter 2 above its value before the first of them.
C3_NoLostUpdate ==
    \A e1, e2 \in Events :
        LET r1 == ev[e1]
            r2 == ev[e2]
            md == memberData[r1.msg.guild][r1.msg.author]
        IN (/\ e1 # e2
            /\ Counted(e1) /\ Counted(e2)
            /\ r1.msg.guild = r2.msg.guild /\ r1.msg.author = r2.msg.author)
           => /\ (/\ BanEnabled(r1.guild_data) /\ BanEnabled(r2.guild_data)
                  /\ r1.pre.filterban_next_reset_time = r2.pre.filterban_next_reset_time
                  /\ r1.msg.created_at < r1.pre.filterban_next_reset_time
                  /\ r2.msg.created_at < r2.pre.filterban_next_reset_time)
                 => md.filterban_count
                      = Min(r1.pre.filterban_count, r2.pre.filterban_count) + 2
              /\ (/\ MuteEnabled(r1.guild_data) /\ MuteEnabled(r2.guild_data)
                  /\ r1.pre.filtermute_next_reset_time = r2.pre.filtermute_next_reset_time
                  /\ r1.msg.created_at < r1.pre.filtermute_next_reset_time
                  /\ r2.msg.created_at < r2.pre.filtermute_next_reset_time)
                 => md.filtermute_count
                      = Min(r1.pre.filtermute_count, r2.pre.filtermute_count) + 2

\* 1 for a violating message whose deletion succeeded, else 0
DeletedViolation(r) == IF r.hits # {} /\ r.deleted = "ok" THEN 1 ELSE 0

\* the window of one kind after an event at time t, from the window before
WindowAfter(t, timeframe, preCount, preEnd, v, count, end) ==
    IF t >= preEnd
    THEN end = t + timeframe /\ count = v
    ELSE end = preEnd /\ count = preCount + v

\* C4: a check_filter that ran alone, with a mechanism enabled, leaves that
\* mechanism's window as the transition prescribes: reset to t + timeframe
\* with count 1 or 0 when t >= windowEnd, else windowEnd unchanged and count
\* raised by 1 for a deleted violation and by 0 otherwise.
C4_WindowTransition ==
    \A e \in Events :
        Done(e) =>
            LET r == ev[e]
                gd == r.guild_data
                md == memberData[r.msg.guild][r.msg.author]
                v == DeletedViolation(r)
            IN /\ BanEnabled(gd) =>
                     WindowAfter(r.msg.created_at, gd.filterban_time,
                                 r.pre.filterban_count, r.pre.filterban_next_reset_time, v,
                                 md.filterban_count, md.filterban_next_reset_time)
               /\ MuteEnabled(gd) =>
                     WindowAfter(r.msg.created_at, gd.filtermute_time,
                                 r.pre.filtermute_count, r.pre.filtermute_next_reset_time, v,
                                 md.filtermute_count, md.filtermute_next_reset_time)

\* the count check_filter holds once the increment of a deleted violation
\* is applied
CountAfterIncrement(r) ==
    IF r.ban_written THEN r.user_filterban_count ELSE r.user_filterban_count + 1

\* C5: with ban enabled, a finished check_filter has requested guild.ban
\* exactly when the message had hits, its deletion succeeded, the count after
\* the increment is at least the threshold and the event time is before the
\* window end.
C5_BanIff ==
    \A e \in Events :
        (Done(e) /\ BanEnabled(ev[e].guild_data)) =>
            ((ev[e].ban # "none") <=>
                (/\ ev[e].hits # {}
                 /\ ev[e].deleted = "ok"
                 /\ CountAfterIncrement(ev[e]) >= ev[e].guild_data.filterban_count
                 /\ ev[e].msg.created_at < ev[e].user_filterban_next_reset_time))

BanOff(g) == guildData[g].filterban_count = 0 /\ guildData[g].filterban_time = 0

MuteOff(g) == guildData[g].filtermute_count = 0 /\ guildData[g].filtermute_time = 0

\* C6: while a guild's setting of a kind is (0, 0), no step of check_filter
\* changes that kind's count or next_reset_time of a member, and none
\* requests the ban (resp. reaches the mute block).
C6_DisabledNeverActs ==
    [][\A g \in Guilds :
          /\ BanOff(g) =>
                /\ \A m \in Members :
                      /\ memberData'[g][m].filterban_count = memberData[g][m].filterban_count
                      /\ memberData'[g][m].filterban_next_reset_time
                           = memberData[g][m].filterban_next_reset_time
                /\ \A e \in Events :
                      ev'[e].msg.guild = g => ev'[e].ban = "none" /\ ~ev'[e].ban_written
          /\ MuteOff(g) =>
                /\ \A m \in Members :
                      /\ memberData'[g][m].filtermute_count = memberData[g][m].filtermute_count
                      /\ memberData'[g][m].filtermute_next_reset_time
                           = memberData[g][m].filtermute_next_reset_time
                /\ \A e \in Events :
                      ev'[e].msg.guild = g =>
                          ev'[e].mute = "none" /\ ~ev'[e].mute_written /\ ~ev'[e].raised
      ]_vars

\* C6 witness: under ban (0, 0) a violating message was deleted and its
\* notification dispatched, the point where an enabled ban counter is raised
C6_Witness ==
    \E e \in Events :
        /\ Done(e)
        /\ BanOff(ev[e].msg.guild)
        /\ ev[e].dispatched # <<>>
        /\ memberData[ev[e].msg.guild][ev[e].msg.author].filterban_count = 0

ExactlyOneZero(count, timeframe) == (count = 0) # (timeframe = 0)

SettingsOf(gd) ==
    <<gd.filterban_count, gd.filterban_time, gd.filtermute_count, gd.filtermute_time>>

\* C7: a finished filterset ban / filterset mute call with exactly one of
\* count and timeframe zero was rejected and left the stored settings as
\* they were.
C7_InvalidConfigRejected ==
    \A k \in Cmds :
        (/\ cmd[k].pc = "done"
         /\ cmd[k].kind \in {"filter_ban", "filter_mute"}
         /\ ExactlyOneZero(cmd[k].count, cmd[k].timeframe))
        => /\ cmd[k].reply = "rejected"
           /\ SettingsOf(guildData[cmd[k].guild]) = SettingsOf(cmd[k].pre)

ValidPair(count, timeframe) ==
    (count = 0 /\ timeframe = 0) \/ (count > 0 /\ timeframe > 0)

\* C8: the stored (count, timeframe) pair of each kind is (0, 0) or has both
\* components greater than 0.
C8_StoredConfigValid ==
    \A g \in Guilds :
        /\ ValidPair(guildData[g].filterban_count, guildData[g].filterban_time)
        /\ ValidPair(guildData[g].filtermute_count, guildData[g].filtermute_time)

\* C9: a finished check_filter whose message.delete succeeded has dispatched
\* exactly one filter_message_delete carrying the hit set and has run the
\* increment of every enabled counter, also when the notice send failed.
C9_DispatchOnEveryDeletion ==
    \A e \in Events :
        (Done(e) /\ ev[e].deleted = "ok") =>
            /\ ev[e].dispatched = <<ev[e].hits>>
            /\ BanEnabled(ev[e].guild_data) => ev[e].ban_written
            /\ MuteEnabled(ev[e].guild_data) => ev[e].mute_written

\* C10: a check_filter whose message.delete failed dispatches nothing, writes
\* no counter and requests no ban or mute; and every event with hits has
\* exactly one filterhit case, every event without hits none.
C10_FailedDeleteAborts ==
    \A e \in Events :
        /\ ev[e].deleted = "failed" =>
              /\ ev[e].dispatched = <<>>
              /\ ~ev[e].ban_written /\ ~ev[e].mute_written
              /\ ev[e].ban = "none" /\ ev[e].mute = "none"
              /\ ev[e].pc = "done"
        /\ ev[e].filterhit_cases = IF ev[e].hits # {} THEN 1 ELSE 0

\* C10 witness: a violating message whose deletion failed, both mechanisms on
\* and the count one short of the ban threshold
C10_Witness ==
    \E e \in Events :
        /\ Done(e)
        /\ ev[e].deleted = "failed"
        /\ ev[e].filterhit_cases = 1
        /\ BanEnabled(ev[e].guild_data) /\ MuteEnabled(ev[e].guild_data)
        /\ ev[e].user_filterban_count + 1 >= ev[e].guild_data.filterban_count
        /\ ev[e].msg.created_at < ev[e].user_filterban_next_reset_time

\* C11: a finished check_filter whose mute check fired (automute on, the
\* incremented count at least the threshold, the event time before the
\* window end) has requested the mute and has not raised.
C11_MuteTriggerCompletes ==
    \A e \in Events :
        (/\ Done(e)
         /\ MuteEnabled(ev[e].guild_data)
         /\ ev[e].mute_written
         /\ MuteTriggered(ev[e]))
        => ev[e].mute # "none" /\ ~ev[e].raised

\* the persisted ban count of the author of listener e's message
BanCountOf(e) == memberData[ev[e].msg.guild][ev[e].msg.author].filterban_count

\* C12: once guild.ban has failed for an event, the event has logged no
\* filterban case, its increment stays written, it goes on with the mute
\* step when automute is on, it raises nothing before that step, and no
\* later step of the event changes the persisted filterban_count; a filterban
\* case exists only after a successful ban.
C12_BanFailureSwallowed ==
    /\ [](\A e \in Events :
            /\ ev[e].ban = "failed" =>
                  /\ ev[e].filterban_cases = 0
                  /\ ev[e].ban_written
                  /\ IF MuteEnabled(ev[e].guild_data)
                     THEN ev[e].pc = "mute_incr" \/ ev[e].mute_written
                     ELSE ev[e].pc = "done" /\ ~ev[e].raised
            /\ ev[e].filterban_cases > 0 => ev[e].ban = "ok")
    /\ [][\A e \in Events :
            (ev[e].ban = "failed" /\ ev'[e] # ev[e] /\ ev'[e].ban = "failed")
            => BanCountOf(e)' = BanCountOf(e)]_vars

\* C12 witness: the ban of a violating message failed, and the event went on
\* to write the mute count
C12_Witness ==
    \E e \in Events :
        /\ Done(e)
        /\ ev[e].ban = "failed"
        /\ ev[e].mute_written
        /\ BanCountOf(e) >= ev[e].guild_data.filterban_count

\* the persisted ban track of member m in guild g
BanTrackOf(g, m) ==
    <<memberData[g][m].filterban_count, memberData[g][m].filterban_next_reset_time>>

\* the persisted mute track of member m in guild g
MuteTrackOf(g, m) ==
    <<memberData[g][m].filtermute_count, memberData[g][m].filtermute_next_reset_time>>

\* C13: a step of a listener's ban reset pass or ban increment leaves the
\* persisted mute track of the author as it was, a step of its mute reset
\* pass or mute increment leaves the persisted ban track as it was, and a
\* deleted and announced violation under both mechanisms writes both counts.
C13_TracksIndependent ==
    /\ [][\A e \in Events :
            /\ (/\ ev[e].pc \in {"ban_reset_enter", "ban_reset_exit", "ban_incr"}
                /\ ev'[e] # ev[e])
               => MuteTrackOf(ev[e].msg.guild, ev[e].msg.author)'
                    = MuteTrackOf(ev[e].msg.guild, ev[e].msg.author)
            /\ (/\ ev[e].pc \in {"mute_reset_enter", "mute_reset_exit", "mute_incr"}
                /\ ev'[e] # ev[e])
               => BanTrackOf(ev[e].msg.guild, ev[e].msg.author)'
                    = BanTrackOf(ev[e].msg.guild, ev[e].msg.author)]_vars
    /\ [](\A e \in Events :
            (/\ Counted(e)
             /\ BanEnabled(ev[e].guild_data)
             /\ MuteEnabled(ev[e].guild_data))
            => ev[e].ban_written /\ ev[e].mute_written)

\* C14: every hit a finished filter_hits returned is a term of the scope's
\* effective term set, in its stored lowercase form.
C14_HitsAreCanonical ==
    \A e \in Events :
        Done(e) => ev[e].hits \subseteq EffectiveTerms(ev[e].msg.guild, ev[e].msg.channel)

\* the lowercase forms of a hit set
Canonical(hits) == {Lower(h) : h \in hits}

\* C15: over fixed lists, a finished filter_hits on a channel scope returned
\* what the alternation over guild list \cup channel list finds in the text,
\* and on a guild scope what the alternation over the guild list finds; so no
\* hit comes from a term outside the scope's union.
C15_EffectiveTermsAreUnion ==
    \A e \in Events :
        (Done(e) /\ (ev[e].kind = "name" => ev[e].guild_data.filter_names)) =>
            LET T == EffectiveTerms(ev[e].msg.guild, ev[e].msg.channel)
            IN /\ \E order \in Orderings(T) : ev[e].hits = Findall(order, ev[e].msg.content)
               /\ Canonical(ev[e].hits) \subseteq T

\* C15 witness: a message in c1 hit a term of c1's list that the guild list
\* does not hold, after the guild list had been read too
C15_Witness ==
    \E e \in Events :
        /\ Done(e)
        /\ ev[e].msg.channel = "c1"
        /\ guildData["g1"].filter # <<>>
        /\ \E h \in ev[e].hits : Lower(h) \notin Range(guildData["g1"].filter)

\* text holds h at position i with no word character next to it on either side
DelimitedAt(h, text, i) ==
    /\ i + Len(h) - 1 <= Len(text)
    /\ SubSeq(text, i, i + Len(h) - 1) = h
    /\ i > 1 => text[i - 1] \notin WordChars
    /\ i + Len(h) <= Len(text) => text[i + Len(h)] \notin WordChars

\* C16: every hit of a finished filter_hits is, character by character and
\* up to case, a term of the scope, and occurs in the text as a whole token:
\* somewhere with no word character directly before or after it.
C16_WholeTokenOnly ==
    \A e \in Events :
        Done(e) =>
            \A h \in ev[e].hits :
                /\ Lower(h) \in EffectiveTerms(ev[e].msg.guild, ev[e].msg.channel)
                /\ \E i \in 1..Len(ev[e].msg.content) : DelimitedAt(h, ev[e].msg.content, i)

\* the stored list of the scope (g, c), c = None for the guild list
StoredList(g, c) == IF c = None THEN guildData[g].filter ELSE channelData[c]

\* a list without duplicate, without empty string, of lowercase terms only
WellFormedList(list) ==
    /\ \A i, j \in 1..Len(list) : list[i] = list[j] => i = j
    /\ \A i \in 1..Len(list) : list[i] # <<>> /\ Lower(list[i]) = list[i]

\* C17: every stored filter list is free of duplicates, of empty strings and
\* of uppercase characters, and once an add command has finished, the same
\* add_to_filter call again would leave the stored list as it is.
C17_StoredListWellFormed ==
    /\ \A g \in Guilds : WellFormedList(guildData[g].filter)
    /\ \A c \in Channels : WellFormedList(channelData[c])
    /\ \A k \in Cmds :
          (cmd[k].pc = "done" /\ cmd[k].kind \in {"filter_add", "filter_channel_add"})
          => AddWords(StoredList(cmd[k].guild, cmd[k].channel), cmd[k].words)
               = StoredList(cmd[k].guild, cmd[k].channel)

\* C17 witness: the mixed-case tuple with its repeat was added to a list that
\* already held another term, and one term was inserted
C17_Witness ==
    \E k \in Cmds :
        /\ cmd[k].pc = "done"
        /\ cmd[k].kind = "filter_add"
        /\ cmd[k].words = << <<"A">>, <<"a">> >>
        /\ cmd[k].pre_list = << <<"b">> >>
        /\ guildData["g1"].filter = << <<"b">>, <<"a">> >>

\* the lowercase forms of the non-empty words of a tuple
Submitted(words) == {Lower(w) : w \in {x \in Range(words) : x # <<>>}}

\* a list command past its add_to_filter / remove_from_filter call
PastListCall(k) == cmd[k].pc \in {"reply", "invalidate", "done"}

\* C18: add_to_filter returned true exactly when a submitted non-empty term
\* was not in the list, and left the list holding the old terms and the
\* submitted ones; remove_from_filter returned true exactly when a submitted
\* term was in the list, and left the set difference; after a false result
\* the stored list is the old one, and the step of the command that follows
\* leaves the whole cache as it was.
C18_ResultReflectsChange ==
    /\ [](\A k \in Cmds :
            LET old == Range(cmd[k].pre_list)
                new == Range(StoredList(cmd[k].guild, cmd[k].channel))
            IN /\ (PastListCall(k) /\ cmd[k].kind \in {"filter_add", "filter_channel_add"})
                  => /\ cmd[k].changed <=> (Submitted(cmd[k].words) \ old # {})
                     /\ new = old \cup Submitted(cmd[k].words)
               /\ (PastListCall(k) /\ cmd[k].kind \in {"filter_remove", "filter_channel_remove"})
                  => /\ cmd[k].changed <=> (Submitted(cmd[k].words) \cap old # {})
                     /\ new = old \ {Lower(w) : w \in Range(cmd[k].words)}
               /\ (/\ PastListCall(k)
                   /\ cmd[k].kind \in {"filter_add", "filter_channel_add",
                                        "filter_remove", "filter_channel_remove"}
                   /\ ~cmd[k].changed)
                  => StoredList(cmd[k].guild, cmd[k].channel) = cmd[k].pre_list)
    /\ [][\A k \in Cmds :
            (cmd[k].pc = "reply" /\ ~cmd[k].changed /\ cmd'[k] # cmd[k])
            => pattern_cache' = pattern_cache]_vars

\* C18 witness: an add that inserted nothing ended with "no change" while the
\* cache held a compiled pattern for the guild's channel
C18_Witness ==
    \E k \in Cmds :
        /\ cmd[k].pc = "done"
        /\ cmd[k].kind = "filter_add"
        /\ ~cmd[k].changed
        /\ cmd[k].pre_list # <<>>
        /\ cmd[k].pre_cache[<<"g1", "c1">>].present
        /\ pattern_cache[<<"g1", "c1">>].pattern # NoPattern

ClearKinds == {"_filter_clear", "_channel_clear"}

\* C19: a clear command that ended on "no" or on the timeout left the stored
\* list of its scope as it found it, no step of a clear command before a
\* "yes" changes a list or the cache, and the "yes" path empties the list
\* and then drops the affected cache entries.
C19_UnconfirmedClearChangesNothing ==
    /\ [](\A k \in Cmds :
            cmd[k].kind \in ClearKinds =>
               /\ cmd[k].reply \in {"no", "timeout"} =>
                     /\ cmd[k].pc = "done"
                     /\ StoredList(cmd[k].guild, cmd[k].channel) = cmd[k].pre_list
                     /\ cmd[k].pre_list # <<>>
               /\ cmd[k].pc = "cleared" =>
                     StoredList(cmd[k].guild, cmd[k].channel) = <<>>
               /\ cmd[k].reply = "changed" =>
                     /\ StoredList(cmd[k].guild, cmd[k].channel) = <<>>
                     /\ cmd[k].pre_list # <<>>)
    /\ [][\A k \in Cmds :
            (cmd'[k].kind \in ClearKinds /\ cmd'[k] # cmd[k]) =>
               /\ cmd'[k].pc # "cleared" /\ cmd[k].pc # "cleared"
                  => UNCHANGED <<guildData, channelData, pattern_cache>>
               /\ cmd[k].pc = "cleared"
                  => \A key \in AffectedKeys(cmd[k].guild, cmd[k].channel) :
                        ~pattern_cache'[key].present]_vars

\* C19 witness: a guild clear timed out with a term stored and a pattern of
\* that term cached
C19_Witness ==
    \E k \in Cmds :
        /\ cmd[k].pc = "done"
        /\ cmd[k].kind = "_filter_clear"
        /\ cmd[k].reply = "timeout"
        /\ guildData["g1"].filter # <<>>
        /\ pattern_cache[<<"g1", "c1">>].pattern # NoPattern

\* what invalidate_cache(guild, channel) is to leave of a cache
Invalidated(cache, guild, channel) ==
    [key \in CacheKeys |->
        IF \/ channel # None /\ key = <<guild, channel>>
           \/ channel = None /\ key[1] = guild
        THEN Absent ELSE cache[key]]

\* a command at the step that calls invalidate_cache
Invalidating(k) ==
    \/ cmd[k].pc \in {"invalidate", "cleared"}
    \/ /\ cmd[k].pc = "reply"
       /\ cmd[k].kind \in {"filter_add", "filter_remove", "filter_channel_add"}
       /\ cmd[k].changed

\* C20: a step that calls invalidate_cache(guild, channel) removes the entry
\* (guild, channel) and no other, and one that calls invalidate_cache(guild)
\* removes (guild, None) and every (guild, c) and leaves the entries of every
\* other guild as they were.
C20_InvalidationScope ==
    [][\A k \in Cmds :
          (Invalidating(k) /\ cmd'[k] # cmd[k])
          => pattern_cache' = Invalidated(pattern_cache, cmd[k].guild, cmd[k].channel)]_vars

\* C20 witness: a guild-list command invalidated while the cache held an
\* entry of a channel of the guild and one of another guild; the first is
\* gone, the second is kept
C20_Witness ==
    \E k \in Cmds :
        /\ cmd[k].pc = "done"
        /\ cmd[k].channel = None
        /\ cmd[k].changed
        /\ cmd[k].pre_cache[<<"g1", "c2">>].present
        /\ cmd[k].pre_cache[<<"g2", "d1">>].present
        /\ ~pattern_cache[<<"g1", "c2">>].present
        /\ pattern_cache[<<"g2", "d1">>].present

\* C21: the step that completes red_delete_data_for_user for a user, whatever
\* the requester kind, leaves the user's member record of every guild at its
\* default.
C21_DeletionPurgesWindows ==
    [][\A k \in Cmds :
          (/\ cmd'[k].kind = "red_delete_data_for_user"
           /\ cmd'[k].pc = "done"
           /\ cmd'[k] # cmd[k])
          => \A g \in Guilds : memberData'[g][cmd'[k].user] = default_member_settings]_vars

\* C22: a maybe_filter_name never holds a value read from a member record
\* and has taken no step of the escalation; no step of it changes a member
\* record, a setting, a list, or a cache entry other than the guild scope's;
\* it has requested the rename only with every early check passed, name
\* filtering on and a hit of a guild-list term, to the default name it read;
\* and with all that it has requested the rename by the time it ends.
C22_NameGuardBypassesEscalation ==
    /\ [](\A e \in Events :
            ev[e].kind = "name" =>
               /\ ev[e].member_data = default_member_settings
               /\ ev[e].user_filterban_count = 0 /\ ev[e].user_filterban_next_reset_time = 0
               /\ ev[e].user_filtermute_count = 0 /\ ev[e].user_filtermute_next_reset_time = 0
               /\ ~ev[e].ban_written /\ ~ev[e].mute_written
               /\ ~ev[e].ban_reset /\ ~ev[e].mute_reset
               /\ ev[e].ban = "none" /\ ev[e].mute = "none" /\ ~ev[e].raised
               /\ ev[e].deleted = "none" /\ ev[e].dispatched = <<>>
               /\ ev[e].filterhit_cases = 0
               /\ Canonical(ev[e].hits) \subseteq Range(guildData[ev[e].msg.guild].filter)
               /\ ev[e].renamed # "none" =>
                     /\ ev[e].checks = AllPass
                     /\ ev[e].guild_data.filter_names
                     /\ ev[e].hits # {}
                     /\ ev[e].renamed_to = ev[e].guild_data.filter_default_name
               /\ (Done(e) /\ ev[e].hits # {}) => ev[e].renamed # "none")
    /\ [][\A e \in Events :
            (ev'[e].kind = "name" /\ ev'[e] # ev[e]) =>
               /\ UNCHANGED <<memberData, guildData, channelData>>
               /\ \A key \in CacheKeys :
                     key # <<ev'[e].msg.guild, None>> => pattern_cache'[key] = pattern_cache[key]]_vars

\* C22 witness: a member with a running ban window was renamed for a filtered
\* name, to a default name set by filterset defaultname
C22_Witness ==
    \E e \in Events :
        /\ Done(e)
        /\ ev[e].kind = "name"
        /\ ev[e].renamed = "ok"
        /\ ev[e].renamed_to = "Missingno"
        /\ memberData["g1"]["m1"].filterban_count = 1

\* the member record a check_filter without hits leaves, from the record
\* before it: each track untouched, or reset by the window reset pass
AfterResetOnly(r) ==
    [filterban_count |-> IF r.ban_reset THEN 0 ELSE r.pre.filterban_count,
     filterban_next_reset_time |->
         IF r.ban_reset THEN r.msg.created_at + r.guild_data.filterban_time
         ELSE r.pre.filterban_next_reset_time,
     filtermute_count |-> IF r.mute_reset THEN 0 ELSE r.pre.filtermute_count,
     filtermute_next_reset_time |->
         IF r.mute_reset THEN r.msg.created_at + r.guild_data.filtermute_time
         ELSE r.pre.filtermute_next_reset_time]

\* C23: a check_filter that ran alone and whose filter_hits returned the
\* empty set has logged no case, requested no deletion, sent no notice,
\* dispatched nothing, written no counter and requested no ban or mute, and
\* has left the member record as the window reset pass alone leaves it.
C23_NoHitsNoAction ==
    \A e \in Events :
        (Done(e) /\ ev[e].kind = "message" /\ ev[e].hits = {}) =>
            /\ ev[e].filterhit_cases = 0 /\ ev[e].filterban_cases = 0
            /\ ev[e].deleted = "none" /\ ev[e].notified = "none"
            /\ ev[e].dispatched = <<>>
            /\ ~ev[e].ban_written /\ ~ev[e].mute_written
            /\ ev[e].ban = "none" /\ ev[e].mute = "none" /\ ~ev[e].raised
            /\ memberData[ev[e].msg.guild][ev[e].msg.author] = AfterResetOnly(ev[e])

\* C23 witness: with autoban on and no term stored, a message text that a
\* term added later would match went through the reset pass and met the
\* cached "no terms" marker
C23_Witness ==
    \E e \in Events :
        /\ Done(e)
        /\ ev[e].hits = {}
        /\ ev[e].msg.content = <<"a">>
        /\ ev[e].ban_reset
        /\ pattern_cache[<<"g1", "c1">>] = Cached(NoPattern)
        /\ memberData["g1"]["m1"].filterban_next_reset_time > 0

\* C24: under an unchanged enabled setting and without data deletion, no
\* step lowers a member's persisted filterban_next_reset_time, resp.
\* filtermute_next_reset_time.
C24_WindowEndMonotonic ==
    [][\A g \in Guilds, m \in Members :
          /\ BanEnabled(guildData[g]) =>
                memberData'[g][m].filterban_next_reset_time
                    >= memberData[g][m].filterban_next_reset_time
          /\ MuteEnabled(guildData[g]) =>
                memberData'[g][m].filtermute_next_reset_time
                    >= memberData[g][m].filtermute_next_reset_time]_vars

\* listener e is at or past the ban check of its message
AtBanCheck(e) == ev[e].ban_written

\* listener e is at or past the mute check of its message
AtMuteCheck(e) == ev[e].mute_written

\* C25: with one check_filter at a time, at and after the ban (resp. mute)
\* check the event time is before the window end the invocation holds, and
\* the check has fired exactly when the incremented count is at least the
\* threshold, also for a count already past the threshold.
C25_LiveWindowGuardRedundant ==
    \A e \in Events :
        /\ AtBanCheck(e) =>
              /\ ev[e].msg.created_at < ev[e].user_filterban_next_reset_time
              /\ (ev[e].pc \in {"ban_request", "ban_case"} \/ ev[e].ban # "none")
                 <=> ev[e].user_filterban_count >= ev[e].guild_data.filterban_count
        /\ AtMuteCheck(e) =>
              /\ ev[e].msg.created_at < ev[e].user_filtermute_next_reset_time
              /\ (ev[e].pc = "mute_trigger" \/ ev[e].raised)
                 <=> ev[e].user_filtermute_count >= ev[e].guild_data.filtermute_count

\* C25 witness: after a ban that failed at the threshold, a further deleted
\* violation in the same window raised the count past the threshold and the
\* ban was requested again
C25_Witness ==
    \E e \in Events :
        /\ Done(e)
        /\ ev[e].ban # "none"
        /\ ~ev[e].ban_reset
        /\ ev[e].user_filterban_count > ev[e].guild_data.filterban_count

====
